---- MODULE Spec2Model ----
(***************************************************************************)
(* Model of the Bienici rental scraper (src/scraper.py).                   *)
(*                                                                         *)
(* One or two scraper processes (main) share one MongoDB collection.  A    *)
(* process first rebuilds the indexes (create_indexes), then crawls the    *)
(* property types one after the other (scrape_with_filters), saving every  *)
(* page record by record (save_annonces: prepare, validate, find_one, then *)
(* update_one or insert_one).  The remote API is the environment: it holds *)
(* one list of ads per property type and never delivers an item beyond its *)
(* result window.                                                          *)
(*                                                                         *)
(* The cleaner (src/cleaner.py) is a separate program: it resets the clean *)
(* collection, reads the source collection once, validates every document  *)
(* and inserts the valid ones in batches.                                  *)
(***************************************************************************)
EXTENDS Integers, Sequences, FiniteSets, TLC

\* ------------------------------------------------------------------ bounds
MaxAds == 2            \* longest ad list of the first category (store runs)
MaxMatches == 5        \* largest true match count of a category (crawl runs)
ApiWindow == 3         \* result window of the remote API (items deliverable per query)
MaxTotal == 3          \* largest total an inconsistent API reports
MaxRuns == 2           \* how many times main() is started (crawl runs)
items_per_page == 2    \* ITEMS_PER_PAGE of the run
max_pages == 2         \* MAX_PAGES of the run
MaxDocs == 3           \* most documents of the source collection (cleaner runs)
BATCH_SIZE == 2        \* BATCH_SIZE of the cleaner, scaled down from 500

\* --------------------------------------------------- constants of cleaner.py
MIN_PRICE == 200
MAX_PRICE == 10000
MIN_SURFACE == 9
MAX_SURFACE == 500
MAX_ROOMS == 20
MIN_PRICE_PER_M2 == 3
MAX_PRICE_PER_M2 == 100

\* ------------------------------------------------------------- environment
Procs == {"p1", "p2"}
property_types == <<"flat", "house">>

IndexOrder == <<"_id_", "id_unique", "city_1">>
AllIndexes == {IndexOrder[k] : k \in 1..Len(IndexOrder)}

NoFields == [k \in {} |-> 0]
NoAds == <<>>

\* a field of the API payload: absent (data.get gives None) or one of vals
Opt(k, vals) == {NoFields} \cup {(k :> v) : v \in vals}

\* an ad as decoded from the API: f holds the non-null fields, nulls the
\* names of the fields whose JSON value is null
Ad(f, nulls) == [f |-> f, nulls |-> nulls]

StoreAds ==
  {Ad(a @@ b @@ c, {}) :
      a \in Opt("id", {"", "X1"}),
      b \in Opt("price", {0, 500}),
      c \in {("adType" :> t) : t \in {"rent", "buy"}}}
  \cup {Ad(("id" :> "X1") @@ ("price" :> 500) @@ ("adType" :> "rent") @@ ("charges" :> 50), {}),
        Ad(("id" :> "X1") @@ ("price" :> 0 - 5) @@ ("adType" :> "rent"), {}),
        Ad(("id" :> "X1") @@ ("price" :> 500), {}),
        Ad(("id" :> "X1") @@ ("price" :> 500) @@ ("adType" :> "rent")
             @@ ("photos" :> <<"a.jpg">>), {}),
        Ad(("id" :> "X1") @@ ("price" :> 500) @@ ("adType" :> "rent"), {"photos"}),
        Ad(("price" :> 500) @@ ("adType" :> "rent"), {"photos"}),
        Ad(("id" :> "X2") @@ ("price" :> 700) @@ ("adType" :> "rent"), {})}

ConcAds ==
  {Ad(("id" :> "X1") @@ ("price" :> 500) @@ ("adType" :> "rent") @@ ("charges" :> 50), {}),
   Ad(("id" :> "X1") @@ ("price" :> 500) @@ ("adType" :> "rent"), {}),
   Ad(("id" :> "X2") @@ ("price" :> 700) @@ ("adType" :> "rent"), {})}

\* a storable ad, an ad save_annonces rejects and an ad prepare_annonce raises on
AcctAds ==
  {Ad(("id" :> "X1") @@ ("price" :> 500) @@ ("adType" :> "rent"), {}),
   Ad(("id" :> "X2") @@ ("price" :> 0) @@ ("adType" :> "rent"), {}),
   Ad(("id" :> "X3") @@ ("price" :> 500) @@ ("adType" :> "rent"), {"photos"})}

\* the n-th ad of a category in a crawl run: distinct keys, all storable
CrawlIds ==
  [flat |-> <<"F1", "F2", "F3", "F4", "F5", "F6", "F7", "F8">>,
   house |-> <<"H1", "H2", "H3", "H4", "H5", "H6", "H7", "H8">>]

CrawlAd(cat, n) ==
  Ad(("id" :> CrawlIds[cat][n]) @@ ("price" :> 500 + n) @@ ("adType" :> "rent"), {})

SeqsUpTo(S, n) == UNION {[1..m -> S] : m \in 0..n}

Min(a, b) == IF a <= b THEN a ELSE b

VARIABLES
  collection,         \* db['locations']: the stored documents, in insertion order
  indexes,            \* names of the indexes of the collection
  now,                \* datetime.utcnow()
  dataset,            \* the ads the API holds for each property type
  pc,                 \* position of each process
  runsLeft,           \* starts of main() still to come, per process
  existing_indexes,   \* create_indexes: index names still to drop
  stats,              \* self.stats
  catIdx,             \* position of the for loop in property_types
  from_index,         \* scrape_with_filters: from_index
  page_num,           \* scrape_with_filters: page_num
  annonces,           \* the page being saved
  total,              \* total of the last response
  pos,                \* save_annonces: position of the for loop in annonces
  result,             \* save_annonces: inserted / updated / skipped of the call
  prepared,           \* save_annonces: prepared document of the current ad
  existing,           \* save_annonces: outcome of find_one for the current ad
  http,               \* the requests a process has sent, with their responses
  slept,              \* time.sleep has run since the last request of the process
  consistent          \* the API serves the dataset as it is (else: any page, any total)

scraperVars == <<collection, indexes, now, dataset, pc, runsLeft, existing_indexes,
                 stats, catIdx, from_index, page_num, annonces, total, pos, result,
                 prepared, existing, http, slept, consistent>>

\* cleaner.py
VARIABLES
  source,             \* db['locations'] as the cleaner reads it
  clean,              \* db['locations_clean']
  batch,              \* fetch_clean_store: batch
  cursor,             \* fetch_clean_store: position of the cursor in source
  cstats,             \* fetch_clean_store: stats
  cpc                 \* position of the cleaner

cleanerVars == <<source, clean, batch, cursor, cstats, cpc>>

vars == <<scraperVars, cleanerVars>>

\* ---------------------------------------------------------------- the API
\* what the remote answers to {size, from, propertyType}: the items of the
\* list from offset `from`, never beyond the result window; total is the
\* true match count
ApiItems(cat, from, size) ==
  LET data == dataset[cat]
      last == Min(Min(from + size, Len(data)), ApiWindow)
  IN  IF last <= from THEN NoAds ELSE SubSeq(data, from + 1, last)

ApiTotal(cat) == Len(dataset[cat])

Response(ok, ads, tot) == [ok |-> ok, ads |-> ads, total |-> tot]

\* what requests.get may bring back: a RequestException, or a decoded page.
\* An inconsistent API answers with up to `size` ads and any total.
Responses(cat, from, size) ==
  {Response(FALSE, NoAds, 0)} \cup
  IF consistent
    THEN {Response(TRUE, ApiItems(cat, from, size), ApiTotal(cat))}
    ELSE {Response(TRUE, [n \in 1..len |-> CrawlAd(cat, ((from + n - 1) % 8) + 1)], tot) :
            len \in 0..size, tot \in 0..MaxTotal}

\* -------------------------------------------------------- prepare_annonce
PayloadKeys == {"id", "price", "adType", "charges"}
MetaKeys == {"scraped_at", "updated_at", "created_at"}

\* len(data.get('photos', [])) raises TypeError on an explicit null
PrepareRaises(data) == "photos" \in data.nulls

Photos(data) == IF "photos" \in DOMAIN data.f THEN data.f["photos"] ELSE <<>>

prepare_annonce(data, t) ==
  [k \in (DOMAIN data.f \cap PayloadKeys)
           \cup {"source", "photos", "photosCount", "scraped_at", "updated_at"} |->
     CASE k = "source" -> "bienici"
       [] k = "photos" -> Photos(data)
       [] k = "photosCount" -> Len(Photos(data))
       [] k = "scraped_at" -> t
       [] k = "updated_at" -> t
       [] OTHER -> data.f[k]]

\* ---------------------------------------------------------- save_annonces
\* `if annonce_id is None` in place of `if not annonce_id`
KeyMissing_NoneOnly(doc) == "id" \notin DOMAIN doc

\* if not annonce_id
KeyMissing(doc) == "id" \notin DOMAIN doc \/ doc["id"] = ""

PriceInvalid(doc) ==
  "price" \notin DOMAIN doc \/ doc["price"] = 0 \/ doc["price"] <= 0

NotRent(doc) == "adType" \notin DOMAIN doc \/ doc["adType"] # "rent"

Matching(coll, id) == {k \in 1..Len(coll) : coll[k]["id"] = id}

find_one(coll, id) == Matching(coll, id) # {}

\* replace_one in place of update_one with $set
SetFields_Replace(old, doc) == doc

\* update_one({'id': id}, {'$set': doc}): the first matching document takes
\* the fields of doc and keeps its other fields
SetFields(old, doc) ==
  [k \in DOMAIN old \cup DOMAIN doc |-> IF k \in DOMAIN doc THEN doc[k] ELSE old[k]]

update_one(coll, id, doc) ==
  IF Matching(coll, id) = {} THEN coll
  ELSE LET first == CHOOSE k \in Matching(coll, id) : \A j \in Matching(coll, id) : k <= j
       IN  [coll EXCEPT ![first] = SetFields(coll[first], doc)]

\* insert_one raises DuplicateKeyError when a unique index holds the key
InsertRaises(coll, ix, doc) == "id_unique" \in ix /\ find_one(coll, doc["id"])

ZeroResult == [inserted |-> 0, updated |-> 0, skipped |-> 0]
ZeroStats == [total_scraped |-> 0, inserted |-> 0, updated |-> 0, skipped |-> 0, errors |-> 0]

\* `continue` without `skipped += 1`
Count_SkipLost(r, what) == IF what = "skipped" THEN r ELSE [r EXCEPT ![what] = @ + 1]

Count(r, what) == [r EXCEPT ![what] = @ + 1]

\* ------------------------------------------------------------------- Init
ZeroCleanStats ==
  [inserted |-> 0, prix_invalide |-> 0, surface_invalide |-> 0, type_invalide |-> 0,
   localisation_manquante |-> 0, pieces_aberrant |-> 0, prix_m2_aberrant |-> 0,
   duplicates |-> 0]

\* the cleaner is not run
CleanerOff ==
  /\ source = <<>>
  /\ clean = <<>>
  /\ batch = <<>>
  /\ cursor = 1
  /\ cstats = ZeroCleanStats
  /\ cpc = "off"

InitProcs ==
  /\ collection = <<>>
  /\ indexes \in {{"_id_"}, AllIndexes}
  /\ now = 0
  /\ pc = [p \in Procs |-> "off"]
  /\ existing_indexes = [p \in Procs |-> <<>>]
  /\ stats = [p \in Procs |-> ZeroStats]
  /\ catIdx = [p \in Procs |-> 1]
  /\ from_index = [p \in Procs |-> 0]
  /\ page_num = [p \in Procs |-> 1]
  /\ annonces = [p \in Procs |-> NoAds]
  /\ total = [p \in Procs |-> 0]
  /\ pos = [p \in Procs |-> 1]
  /\ result = [p \in Procs |-> ZeroResult]
  /\ prepared = [p \in Procs |-> NoFields]
  /\ existing = [p \in Procs |-> FALSE]
  /\ http = [p \in Procs |-> <<>>]
  /\ slept = [p \in Procs |-> FALSE]

\* one scraper, any ads in the first category, none or more than a page of
\* storable ads in the second
InitStore ==
  /\ InitProcs
  /\ CleanerOff
  /\ consistent = TRUE
  /\ runsLeft = [p \in Procs |-> IF p = "p1" THEN 1 ELSE 0]
  /\ \E ads \in SeqsUpTo(StoreAds, MaxAds) :
       \E nh \in {0, items_per_page + 1} :
         dataset = [cat \in {"flat", "house"} |->
                      IF cat = "flat" THEN ads ELSE [n \in 1..nh |-> CrawlAd(cat, n)]]

\* two scrapers on the same collection, each started once; up to one ad more
\* than a page in the first category
InitConc ==
  /\ InitProcs
  /\ CleanerOff
  /\ consistent = TRUE
  /\ runsLeft = [p \in Procs |-> 1]
  /\ \E ads \in SeqsUpTo(ConcAds, items_per_page + 1) :
       dataset = [cat \in {"flat", "house"} |-> IF cat = "flat" THEN ads ELSE NoAds]

\* two scrapers on the same collection, each started once, on storable,
\* rejected and raising ads
InitAcct ==
  /\ InitProcs
  /\ CleanerOff
  /\ consistent = TRUE
  /\ runsLeft = [p \in Procs |-> 1]
  /\ \E ads \in SeqsUpTo(AcctAds, items_per_page + 1) :
       dataset = [cat \in {"flat", "house"} |-> IF cat = "flat" THEN ads ELSE NoAds]

\* one scraper, started once, on an API that is consistent or answers with
\* any page and any total
InitApi ==
  /\ InitProcs
  /\ CleanerOff
  /\ runsLeft = [p \in Procs |-> IF p = "p1" THEN 1 ELSE 0]
  /\ \/ /\ consistent = FALSE
        /\ dataset = [cat \in {"flat", "house"} |-> NoAds]
     \/ /\ consistent = TRUE
        /\ \E nf \in 0..MaxMatches, nh \in 0..MaxMatches :
             dataset = [cat \in {"flat", "house"} |->
                          [n \in 1..(IF cat = "flat" THEN nf ELSE nh) |-> CrawlAd(cat, n)]]

\* one scraper, categories of any size, storable ads with distinct keys
Init ==
  /\ InitProcs
  /\ CleanerOff
  /\ consistent = TRUE
  /\ runsLeft = [p \in Procs |-> IF p = "p1" THEN MaxRuns ELSE 0]
  /\ \E nf \in 0..MaxMatches, nh \in 0..MaxMatches :
       dataset = [cat \in {"flat", "house"} |->
                    [n \in 1..(IF cat = "flat" THEN nf ELSE nh) |-> CrawlAd(cat, n)]]

\* ---------------------------------------------------------------- actions
\* main(): BieniciScraperLocations() starts create_indexes
Start(p) ==
  /\ pc[p] \in {"off", "done", "interrupted"}
  /\ runsLeft[p] > 0
  /\ runsLeft' = [runsLeft EXCEPT ![p] = @ - 1]
  /\ stats' = [stats EXCEPT ![p] = ZeroStats]
  /\ http' = [http EXCEPT ![p] = <<>>]
  /\ slept' = [slept EXCEPT ![p] = FALSE]
  /\ pc' = [pc EXCEPT ![p] = "list_indexes"]
  /\ UNCHANGED <<collection, indexes, now, dataset, existing_indexes, catIdx,
                 from_index, page_num, annonces, total, pos, result, prepared, existing, consistent>>
  /\ UNCHANGED cleanerVars

\* existing_indexes = list(self.collection.index_information().keys())
ListIndexes(p) ==
  /\ pc[p] = "list_indexes"
  /\ existing_indexes' = [existing_indexes EXCEPT ![p] =
                            SelectSeq(IndexOrder, LAMBDA idx : idx \in indexes /\ idx # "_id_")]
  /\ pc' = [pc EXCEPT ![p] = "drop_indexes"]
  /\ UNCHANGED <<collection, indexes, now, dataset, runsLeft, stats, catIdx,
                 from_index, page_num, annonces, total, pos, result, prepared, existing, http, slept, consistent>>
  /\ UNCHANGED cleanerVars

\* for idx in existing_indexes: drop_index(idx), errors swallowed
DropIndex(p) ==
  /\ pc[p] = "drop_indexes"
  /\ IF existing_indexes[p] = <<>>
       THEN /\ pc' = [pc EXCEPT ![p] = "create_unique"]
            /\ UNCHANGED <<indexes, existing_indexes>>
       ELSE /\ indexes' = indexes \ {Head(existing_indexes[p])}
            /\ existing_indexes' = [existing_indexes EXCEPT ![p] = Tail(@)]
            /\ UNCHANGED pc
  /\ UNCHANGED <<collection, now, dataset, runsLeft, stats, catIdx,
                 from_index, page_num, annonces, total, pos, result, prepared, existing, http, slept, consistent>>
  /\ UNCHANGED cleanerVars

HasDuplicates(coll) ==
  \E j, k \in 1..Len(coll) : j # k /\ coll[j]["id"] = coll[k]["id"]

\* the index on 'id' created without unique=True
IndexesWithUnique_NotUnique(ix) == ix \cup {"id_1"}

IndexesWithUnique(ix) == ix \cup {"id_unique"}

\* create_index([('id', ASCENDING)], unique=True, name='id_unique'): fails on
\* a collection that holds a key twice, and the failure leaves __init__
CreateUniqueIndex(p) ==
  /\ pc[p] = "create_unique"
  /\ IF HasDuplicates(collection) /\ "id_unique" \notin indexes
       THEN /\ pc' = [pc EXCEPT ![p] = "crashed"]
            /\ UNCHANGED indexes
       ELSE /\ indexes' = IndexesWithUnique(indexes)
            /\ pc' = [pc EXCEPT ![p] = "create_search"]
  /\ UNCHANGED <<collection, now, dataset, runsLeft, existing_indexes, stats, catIdx,
                 from_index, page_num, annonces, total, pos, result, prepared, existing, http, slept, consistent>>
  /\ UNCHANGED cleanerVars

\* the non-unique search indexes; then scrape_all_rentals enters the for loop
CreateSearchIndexes(p) ==
  /\ pc[p] = "create_search"
  /\ indexes' = indexes \cup {"city_1"}
  /\ catIdx' = [catIdx EXCEPT ![p] = 1]
  /\ pc' = [pc EXCEPT ![p] = "for"]
  /\ UNCHANGED <<collection, now, dataset, runsLeft, existing_indexes, stats,
                 from_index, page_num, annonces, total, pos, result, prepared, existing, http, slept, consistent>>
  /\ UNCHANGED cleanerVars

\* for property_type in property_types: from_index = 0, page_num = 1
BeginCategory(p) ==
  /\ pc[p] = "for"
  /\ IF catIdx[p] > Len(property_types)
       THEN /\ pc' = [pc EXCEPT ![p] = "stats"]
            /\ UNCHANGED <<from_index, page_num>>
       ELSE /\ from_index' = [from_index EXCEPT ![p] = 0]
            /\ page_num' = [page_num EXCEPT ![p] = 1]
            /\ pc' = [pc EXCEPT ![p] = "while"]
  /\ UNCHANGED <<collection, indexes, now, dataset, runsLeft, existing_indexes, stats,
                 catIdx, annonces, total, pos, result, prepared, existing, http, slept, consistent>>
  /\ UNCHANGED cleanerVars

has_more == TRUE

\* the for loop started again on the same property type
AfterCategory_Same(c) == c

\* where the for loop goes on after a break or the end of the while loop
AfterCategory(c) == c + 1

\* `return` in place of `break` after `if not response`
AfterFailure_Return(c) == Len(property_types) + 1

\* the break after `if not response`: on to the next property type
AfterFailure(c) == c + 1

Exchange(p, ok, ads, tot) ==
  [propertyType |-> property_types[catIdx[p]], from |-> from_index[p],
   page |-> page_num[p], ok |-> ok, ads |-> ads, total |-> tot]

\* the while test, fetch_annonces, and the two breaks that follow it
Fetch(p) ==
  /\ pc[p] = "while"
  /\ IF ~(has_more /\ page_num[p] <= max_pages)
       THEN /\ catIdx' = [catIdx EXCEPT ![p] = AfterCategory(@)]
            /\ pc' = [pc EXCEPT ![p] = "for"]
            /\ UNCHANGED <<stats, annonces, total, pos, result, http, slept>>
       ELSE \E resp \in Responses(property_types[catIdx[p]], from_index[p], items_per_page) :
              /\ http' = [http EXCEPT ![p] = Append(@, Exchange(p, resp.ok, resp.ads, resp.total))]
              /\ slept' = [slept EXCEPT ![p] = FALSE]
              /\ IF ~resp.ok
                   THEN /\ stats' = [stats EXCEPT ![p] = Count(@, "errors")]
                        /\ catIdx' = [catIdx EXCEPT ![p] = AfterFailure(@)]
                        /\ pc' = [pc EXCEPT ![p] = "for"]
                        /\ UNCHANGED <<annonces, total, pos, result>>
                   ELSE /\ annonces' = [annonces EXCEPT ![p] = resp.ads]
                        /\ total' = [total EXCEPT ![p] = resp.total]
                        /\ UNCHANGED stats
                        /\ IF resp.ads = NoAds
                             THEN /\ catIdx' = [catIdx EXCEPT ![p] = AfterCategory(@)]
                                  /\ pc' = [pc EXCEPT ![p] = "for"]
                                  /\ UNCHANGED <<pos, result>>
                             ELSE /\ pos' = [pos EXCEPT ![p] = 1]
                                  /\ result' = [result EXCEPT ![p] = ZeroResult]
                                  /\ pc' = [pc EXCEPT ![p] = "save"]
                                  /\ UNCHANGED catIdx
  /\ UNCHANGED <<collection, indexes, now, dataset, runsLeft, existing_indexes,
                 from_index, page_num, prepared, existing, consistent>>
  /\ UNCHANGED cleanerVars

\* one ad of the page: prepare_annonce, the three checks, find_one
SaveFind(p) ==
  /\ pc[p] = "save"
  /\ pos[p] <= Len(annonces[p])
  /\ now' = now + 1
  /\ LET data == annonces[p][pos[p]]
         doc == prepare_annonce(data, now')
     IN  IF PrepareRaises(data) \/ KeyMissing(doc) \/ PriceInvalid(doc) \/ NotRent(doc)
           THEN /\ result' = [result EXCEPT ![p] = Count(@, "skipped")]
                /\ pos' = [pos EXCEPT ![p] = @ + 1]
                /\ UNCHANGED <<pc, prepared, existing>>
           ELSE /\ prepared' = [prepared EXCEPT ![p] = doc]
                /\ existing' = [existing EXCEPT ![p] = find_one(collection, doc["id"])]
                /\ pc' = [pc EXCEPT ![p] = "write"]
                /\ UNCHANGED <<result, pos>>
  /\ UNCHANGED <<collection, indexes, dataset, runsLeft, existing_indexes, stats,
                 catIdx, from_index, page_num, annonces, total, http, slept, consistent>>
  /\ UNCHANGED cleanerVars

\* update_one when find_one found the key, insert_one otherwise; a
\* DuplicateKeyError of insert_one is counted as skipped
SaveWrite(p) ==
  /\ pc[p] = "write"
  /\ now' = now + 1
  /\ LET doc == prepared[p]
     IN  IF existing[p]
           THEN /\ collection' = update_one(collection, doc["id"], doc)
                /\ result' = [result EXCEPT ![p] = Count(@, "updated")]
           ELSE IF InsertRaises(collection, indexes, doc)
                  THEN /\ result' = [result EXCEPT ![p] = Count(@, "skipped")]
                       /\ UNCHANGED collection
                  ELSE /\ collection' = Append(collection, doc @@ ("created_at" :> now'))
                       /\ result' = [result EXCEPT ![p] = Count(@, "inserted")]
  /\ pos' = [pos EXCEPT ![p] = @ + 1]
  /\ prepared' = [prepared EXCEPT ![p] = NoFields]
  /\ existing' = [existing EXCEPT ![p] = FALSE]
  /\ pc' = [pc EXCEPT ![p] = "save"]
  /\ UNCHANGED <<indexes, dataset, runsLeft, existing_indexes, stats,
                 catIdx, from_index, page_num, annonces, total, http, slept, consistent>>
  /\ UNCHANGED cleanerVars

\* from_index left as it is
NextFrom_Stuck(from, ads) == from

\* from_index += self.items_per_page
NextFrom_PageSize(from, ads) == from + items_per_page

\* from_index += len(annonces)
NextFrom(from, ads) == from + Len(ads)

\* if from_index > total: break
Exhausted_Strict(from, tot) == from > tot

\* if from_index >= total: break
Exhausted(from, tot) == from >= tot

\* save_annonces returns: the statistics, from_index += len(annonces), the
\* break on from_index >= total, page_num += 1
PageDone(p) ==
  /\ pc[p] = "save"
  /\ pos[p] > Len(annonces[p])
  /\ stats' = [stats EXCEPT ![p] =
                 [@ EXCEPT !.total_scraped = @ + Len(annonces[p]),
                           !.inserted = @ + result[p].inserted,
                           !.updated = @ + result[p].updated,
                           !.skipped = @ + result[p].skipped]]
  /\ from_index' = [from_index EXCEPT ![p] = NextFrom(@, annonces[p])]
  /\ IF Exhausted(from_index'[p], total[p])
       THEN /\ catIdx' = [catIdx EXCEPT ![p] = AfterCategory(@)]
            /\ pc' = [pc EXCEPT ![p] = "for"]
            /\ UNCHANGED page_num
       ELSE /\ page_num' = [page_num EXCEPT ![p] = @ + 1]
            /\ pc' = [pc EXCEPT ![p] = "sleep"]
            /\ UNCHANGED catIdx
  /\ UNCHANGED <<collection, indexes, now, dataset, runsLeft, existing_indexes,
                 annonces, total, pos, result, prepared, existing, http, slept, consistent>>
  /\ UNCHANGED cleanerVars

\* time.sleep(self.delay)
Sleep(p) ==
  /\ pc[p] = "sleep"
  /\ pc' = [pc EXCEPT ![p] = "while"]
  /\ slept' = [slept EXCEPT ![p] = TRUE]
  /\ UNCHANGED <<collection, indexes, now, dataset, runsLeft, existing_indexes, stats,
                 catIdx, from_index, page_num, annonces, total, pos, result, prepared,
                 existing, http, consistent>>
  /\ UNCHANGED cleanerVars

\* print_stats, then main closes the connection
PrintStats(p) ==
  /\ pc[p] = "stats"
  /\ pc' = [pc EXCEPT ![p] = "done"]
  /\ UNCHANGED <<collection, indexes, now, dataset, runsLeft, existing_indexes, stats,
                 catIdx, from_index, page_num, annonces, total, pos, result, prepared,
                 existing, http, slept, consistent>>
  /\ UNCHANGED cleanerVars

Running == {"list_indexes", "drop_indexes", "create_unique", "create_search",
            "for", "while", "save", "write", "sleep", "stats"}

\* KeyboardInterrupt: the run ends where it is, without print_stats, and the
\* process is gone with everything it held in memory
Interrupt(p) ==
  /\ pc[p] \in Running
  /\ pc' = [pc EXCEPT ![p] = "interrupted"]
  /\ existing_indexes' = [existing_indexes EXCEPT ![p] = <<>>]
  /\ stats' = [stats EXCEPT ![p] = ZeroStats]
  /\ catIdx' = [catIdx EXCEPT ![p] = 1]
  /\ from_index' = [from_index EXCEPT ![p] = 0]
  /\ page_num' = [page_num EXCEPT ![p] = 1]
  /\ annonces' = [annonces EXCEPT ![p] = NoAds]
  /\ total' = [total EXCEPT ![p] = 0]
  /\ pos' = [pos EXCEPT ![p] = 1]
  /\ result' = [result EXCEPT ![p] = ZeroResult]
  /\ prepared' = [prepared EXCEPT ![p] = NoFields]
  /\ existing' = [existing EXCEPT ![p] = FALSE]
  /\ http' = [http EXCEPT ![p] = <<>>]
  /\ slept' = [slept EXCEPT ![p] = FALSE]
  /\ UNCHANGED <<collection, indexes, now, dataset, runsLeft, consistent>>
  /\ UNCHANGED cleanerVars

Next ==
  \E p \in Procs :
    \/ Start(p)
    \/ ListIndexes(p)
    \/ DropIndex(p)
    \/ CreateUniqueIndex(p)
    \/ CreateSearchIndexes(p)
    \/ BeginCategory(p)
    \/ Fetch(p)
    \/ SaveFind(p)
    \/ SaveWrite(p)
    \/ PageDone(p)
    \/ Sleep(p)
    \/ PrintStats(p)
    \/ Interrupt(p)

Spec == Init /\ [][Next]_vars
SpecStore == InitStore /\ [][Next]_vars
SpecConc == InitConc /\ [][Next]_vars
SpecApi == InitApi /\ [][Next]_vars

SpecAcct == InitAcct /\ [][Next]_vars

\* the steps of a running scraper: the interpreter goes on unless interrupted
Step(p) ==
  \/ ListIndexes(p)
  \/ DropIndex(p)
  \/ CreateUniqueIndex(p)
  \/ CreateSearchIndexes(p)
  \/ BeginCategory(p)
  \/ Fetch(p)
  \/ SaveFind(p)
  \/ SaveWrite(p)
  \/ PageDone(p)
  \/ Sleep(p)
  \/ PrintStats(p)

SpecApiLive == InitApi /\ [][Next]_vars /\ \A p \in Procs : WF_vars(Step(p))

\* ------------------------------------------------------------ the cleaner
\* a stored document as the cleaner's projection delivers it; a field that
\* is not in the domain reads as None
Doc(id, price, surface, type, city, rooms) ==
  id @@ price @@ surface @@ type @@ city @@ rooms

Located == ("city" :> "Paris") @@ ("postalCode" :> "75011")

\* documents around every threshold of is_valid_location; two of them share
\* the key "A"
CleanDocs ==
  {Doc(("id" :> "A"), ("price" :> 800), ("surfaceArea" :> 40), ("propertyType" :> "flat"),
       Located, NoFields),
   Doc(("id" :> "A"), ("price" :> MAX_PRICE), ("surfaceArea" :> MAX_SURFACE),
       ("propertyType" :> "house"), Located, ("roomsQuantity" :> MAX_ROOMS)),
   Doc(("id" :> "B"), ("price" :> MIN_PRICE), ("surfaceArea" :> MIN_SURFACE),
       ("propertyType" :> "flat"), Located, ("roomsQuantity" :> 0)),
   Doc(NoFields, ("price" :> 900), ("surfaceArea" :> 30), ("propertyType" :> "flat"),
       Located, NoFields),
   Doc(("id" :> "C"), ("price" :> MIN_PRICE - 1), ("surfaceArea" :> 40),
       ("propertyType" :> "flat"), Located, NoFields),
   Doc(("id" :> "C"), ("price" :> MAX_PRICE + 1), ("surfaceArea" :> 200),
       ("propertyType" :> "flat"), Located, NoFields),
   Doc(("id" :> "C"), NoFields, ("surfaceArea" :> 40), ("propertyType" :> "flat"),
       Located, NoFields),
   Doc(("id" :> "C"), ("price" :> 800), ("surfaceArea" :> MIN_SURFACE - 1),
       ("propertyType" :> "flat"), Located, NoFields),
   Doc(("id" :> "C"), ("price" :> 8000), ("surfaceArea" :> MAX_SURFACE + 1),
       ("propertyType" :> "flat"), Located, NoFields),
   Doc(("id" :> "C"), ("price" :> 800), ("surfaceArea" :> 0), ("propertyType" :> "flat"),
       Located, NoFields),
   Doc(("id" :> "C"), ("price" :> 800), ("surfaceArea" :> 40), ("propertyType" :> "parking"),
       Located, NoFields),
   Doc(("id" :> "C"), ("price" :> 800), ("surfaceArea" :> 40), NoFields, Located, NoFields),
   Doc(("id" :> "C"), ("price" :> 800), ("surfaceArea" :> 40), ("propertyType" :> "flat"),
       ("city" :> "") @@ ("postalCode" :> "75011"), NoFields),
   Doc(("id" :> "C"), ("price" :> 800), ("surfaceArea" :> 40), ("propertyType" :> "flat"),
       ("city" :> "Paris"), NoFields),
   Doc(("id" :> "C"), ("price" :> 800), ("surfaceArea" :> 40), ("propertyType" :> "flat"),
       Located, ("roomsQuantity" :> MAX_ROOMS + 1)),
   Doc(("id" :> "C"), ("price" :> 299), ("surfaceArea" :> 100), ("propertyType" :> "flat"),
       Located, NoFields),
   Doc(("id" :> "C"), ("price" :> 1001), ("surfaceArea" :> 10), ("propertyType" :> "flat"),
       Located, NoFields)}

\* doc.get(k) is falsy: None or 0 for a number, None or '' for a string
Falsy(doc, k) == k \notin DOMAIN doc \/ doc[k] = 0

FalsyText(doc, k) == k \notin DOMAIN doc \/ doc[k] = ""

\* the reason is_valid_location rejects a document for, "" when it is valid;
\* price / surface is compared as a product
RejectReason(doc) ==
  IF Falsy(doc, "price") \/ doc["price"] < MIN_PRICE \/ doc["price"] > MAX_PRICE
    THEN "prix_invalide"
  ELSE IF Falsy(doc, "surfaceArea") \/ doc["surfaceArea"] < MIN_SURFACE
            \/ doc["surfaceArea"] > MAX_SURFACE
    THEN "surface_invalide"
  ELSE IF "propertyType" \notin DOMAIN doc \/ doc["propertyType"] \notin {"flat", "house"}
    THEN "type_invalide"
  ELSE IF FalsyText(doc, "city") \/ FalsyText(doc, "postalCode")
    THEN "localisation_manquante"
  ELSE IF ~Falsy(doc, "roomsQuantity") /\ doc["roomsQuantity"] > MAX_ROOMS
    THEN "pieces_aberrant"
  ELSE IF \/ doc["price"] < MIN_PRICE_PER_M2 * doc["surfaceArea"]
          \/ doc["price"] > MAX_PRICE_PER_M2 * doc["surfaceArea"]
    THEN "prix_m2_aberrant"
  ELSE ""

is_valid_location(doc) == RejectReason(doc) = ""

\* clean_document: a copy with the derived fields added; the fields that
\* is_valid_location reads are kept as they are
clean_document(doc) ==
  doc @@ ("equipment_score" :> 0) @@ ("cleaned_at" :> "utcnow")

\* the value the id_unique index of the clean collection holds for a
\* document: a missing id is indexed as null
IndexKey(doc) == IF "id" \in DOMAIN doc THEN doc["id"] ELSE "<null>"

\* insert_many(batch, ordered=False): every document is tried; the ones
\* whose key is already in the collection are write errors
RECURSIVE insert_many(_, _)
insert_many(coll, docs) ==
  IF docs = <<>> THEN coll
  ELSE LET d == Head(docs)
           taken == \E k \in 1..Len(coll) : IndexKey(coll[k]) = IndexKey(d)
       IN  insert_many(IF taken THEN coll ELSE Append(coll, d), Tail(docs))

\* insert_batch: what it returns; BulkWriteError is raised when a write failed
insert_batch(coll, docs) ==
  LET nInserted == Len(insert_many(coll, docs)) - Len(coll)
  IN  IF nInserted < Len(docs)
        THEN [inserted |-> nInserted, duplicates |-> Len(docs) - nInserted]
        ELSE [inserted |-> Len(docs), duplicates |-> 0]

\* the statistics after a batch went through insert_batch
Flushed(st, coll, docs) ==
  [st EXCEPT !.inserted = @ + insert_batch(coll, docs).inserted,
             !.duplicates = @ + insert_batch(coll, docs).duplicates]

\* setup_clean_collection: drop, then the indexes
SetupCleanCollection ==
  /\ cpc = "setup"
  /\ clean' = <<>>
  /\ cpc' = "count"
  /\ UNCHANGED <<source, batch, cursor, cstats>>
  /\ UNCHANGED scraperVars

\* fetch_clean_store up to the loop: count_documents, the early return, the
\* statistics, the batch and the cursor
CountDocuments ==
  /\ cpc = "count"
  /\ IF Len(source) = 0
       THEN /\ cpc' = "done"
            /\ UNCHANGED <<batch, cursor, cstats>>
       ELSE /\ cstats' = ZeroCleanStats
            /\ batch' = <<>>
            /\ cursor' = 1
            /\ cpc' = "loop"
  /\ UNCHANGED <<source, clean>>
  /\ UNCHANGED scraperVars

\* one turn of `for doc in cursor`
ProcessDoc ==
  /\ cpc = "loop"
  /\ cursor <= Len(source)
  /\ LET doc == source[cursor]
         reason == RejectReason(doc)
         filled == Append(batch, clean_document(doc))
     IN  IF ~is_valid_location(doc)
           THEN /\ cstats' = [cstats EXCEPT ![reason] = @ + 1]
                /\ UNCHANGED <<batch, clean>>
           ELSE IF Len(filled) >= BATCH_SIZE
                  THEN /\ clean' = insert_many(clean, filled)
                       /\ cstats' = Flushed(cstats, clean, filled)
                       /\ batch' = <<>>
                  ELSE /\ batch' = filled
                       /\ UNCHANGED <<cstats, clean>>
  /\ cursor' = cursor + 1
  /\ UNCHANGED <<source, cpc>>
  /\ UNCHANGED scraperVars

\* the last batch is dropped
LastBatchPending_Never(docs) == FALSE

\* if batch:
LastBatchPending(docs) == docs # <<>>

\* the cursor is exhausted: the last batch
LastBatch ==
  /\ cpc = "loop"
  /\ cursor > Len(source)
  /\ IF LastBatchPending(batch)
       THEN /\ clean' = insert_many(clean, batch)
            /\ cstats' = Flushed(cstats, clean, batch)
       ELSE UNCHANGED <<cstats, clean>>
  /\ cpc' = "stats"
  /\ UNCHANGED <<source, batch, cursor>>
  /\ UNCHANGED scraperVars

\* print_stats(stats, total); fetch_clean_store returns
CleanPrintStats ==
  /\ cpc = "stats"
  /\ cpc' = "done"
  /\ UNCHANGED <<source, clean, batch, cursor, cstats>>
  /\ UNCHANGED scraperVars

\* a document an earlier run of the cleaner left in the clean collection
OldCleanDoc ==
  clean_document(Doc(("id" :> "A"), ("price" :> 750), ("surfaceArea" :> 40),
                     ("propertyType" :> "flat"), Located, NoFields))

\* the cleaner is started on any source collection; the clean collection is
\* empty or left by an earlier run; no scraper runs
InitClean ==
  /\ InitProcs
  /\ consistent = TRUE
  /\ runsLeft = [p \in Procs |-> 0]
  /\ dataset = [cat \in {"flat", "house"} |-> NoAds]
  /\ source \in SeqsUpTo(CleanDocs, MaxDocs)
  /\ clean \in {<<>>, <<OldCleanDoc>>}
  /\ batch = <<>>
  /\ cursor = 1
  /\ cstats = ZeroCleanStats
  /\ cpc = "setup"

NextClean ==
  \/ SetupCleanCollection
  \/ CountDocuments
  \/ ProcessDoc
  \/ LastBatch
  \/ CleanPrintStats

SpecClean == InitClean /\ [][NextClean]_vars

\* ------------------------------------------------------------- properties
HasKey(ad) == "id" \in DOMAIN ad.f /\ ad.f["id"] # ""

StoredIds == {collection[k]["id"] : k \in 1..Len(collection)}

\* the document stored under a key (the first one, as update_one sees it)
Stored(coll, id) == coll[CHOOSE k \in Matching(coll, id) : \A j \in Matching(coll, id) : k <= j]

\* the fields of a document that are not ingestion timestamps
Payload(doc) == [k \in DOMAIN doc \ MetaKeys |-> doc[k]]

\* p completes the processing of the ad at pos[p] in this step
Processes(p) == pc[p] \in {"save", "write"} /\ pos'[p] = pos[p] + 1

C3_LoserRetriesAsUpdate ==
  [][\A p \in Procs :
       (/\ pc[p] = "write"
        /\ pc'[p] = "save"
        /\ ~existing[p]
        /\ find_one(collection, prepared[p]["id"]))
       => /\ result'[p].updated = result[p].updated + 1
          /\ result'[p].skipped = result[p].skipped
          /\ Payload(Stored(collection', prepared[p]["id"])) = Payload(prepared[p])
          /\ Stored(collection', prepared[p]["id"])["updated_at"] = prepared[p]["updated_at"]]_vars

\* C1 (as claimed): when an ad with a non-empty key is saved twice in a row,
\* the first save is reported inserted or updated, the second one updated,
\* one document is stored for the key, and the second save changes only the
\* last-seen timestamps (scraped_at, updated_at) of that document.
C1_UpsertIdempotent ==
  [][\A p \in Procs :
       (/\ Processes(p)
        /\ HasKey(annonces[p][pos[p]]))
       => /\ result'[p].skipped = result[p].skipped
          /\ Cardinality(Matching(collection', annonces[p][pos[p]].f["id"])) = 1
          /\ (pos[p] > 1 /\ annonces[p][pos[p] - 1] = annonces[p][pos[p]])
               => /\ result'[p].updated = result[p].updated + 1
                  /\ Len(collection') = Len(collection)
                  /\ \A k \in 1..Len(collection) :
                       /\ DOMAIN collection'[k] = DOMAIN collection[k]
                       /\ \A f \in DOMAIN collection[k] \ {"scraped_at", "updated_at"} :
                            collection'[k][f] = collection[k][f]]_vars

\* C4: an ad whose 'id' is missing or empty adds one to skipped and nothing
\* to inserted or updated, leaves the collection as it is, raises nothing
\* (the loop of save_annonces goes on) and the loop moves to the next ad.
C4_MissingKeySkipped ==
  [][\A p \in Procs :
       (/\ pc[p] = "save"
        /\ pos[p] <= Len(annonces[p])
        /\ <<pc[p], pos[p]>> # <<pc'[p], pos'[p]>>
        /\ pc'[p] # "interrupted"
        /\ ~HasKey(annonces[p][pos[p]]))
       => /\ result'[p].skipped = result[p].skipped + 1
          /\ result'[p].inserted = result[p].inserted
          /\ result'[p].updated = result[p].updated
          /\ collection' = collection
          /\ pc'[p] = "save"
          /\ pos'[p] = pos[p] + 1]_vars

\* C4 witness: the first ad of a page had no key and was skipped, and the
\* second ad of the page is now being processed
C4_Witness ==
  \E p \in Procs :
    /\ pc[p] \in {"save", "write"}
    /\ pos[p] = 2
    /\ Len(annonces[p]) >= 2
    /\ ~HasKey(annonces[p][1])
    /\ result[p] = [inserted |-> 0, updated |-> 0, skipped |-> 1]
    /\ collection = <<>>

\* C5 (as claimed): on the update path the save is counted as updated, one
\* document is stored for the key, and its payload is the new payload, a
\* field the new payload lacks being gone from the stored document.
C5_UpdateReplacesPayload ==
  [][\A p \in Procs :
       (/\ pc[p] = "write"
        /\ pc'[p] = "save"
        /\ existing[p])
       => /\ result'[p].updated = result[p].updated + 1
          /\ Cardinality(Matching(collection', prepared[p]["id"])) = 1
          /\ Payload(Stored(collection', prepared[p]["id"])) = Payload(prepared[p])]_vars

\* C6 (as claimed): every ad with a non-empty key is stored and counted as
\* inserted or updated, whatever its price, ad type and other fields.
C6_KeyedRecordPersisted ==
  [][\A p \in Procs :
       (/\ Processes(p)
        /\ HasKey(annonces[p][pos[p]]))
       => /\ result'[p].inserted + result'[p].updated
               = result[p].inserted + result[p].updated + 1
          /\ annonces[p][pos[p]].f["id"] \in StoredIds']_vars

\* how often an ad was delivered to p by the API
Retrieved(p, ad) ==
  Cardinality({ij \in (1..Len(http[p])) \X (1..items_per_page) :
                 /\ ij[2] <= Len(http[p][ij[1]].ads)
                 /\ http[p][ij[1]].ads[ij[2]] = ad})

Failed(p) == {i \in 1..Len(http[p]) : ~http[p][i].ok}

\* C7 (as claimed): a crawl that ends without a fetch failure has retrieved
\* every ad of every property type, each exactly once.
C7_CompleteCoverage ==
  \A p \in Procs :
    (pc[p] = "done" /\ Failed(p) = {})
    => \A c \in 1..Len(property_types) :
         \A n \in 1..Len(dataset[property_types[c]]) :
           Retrieved(p, dataset[property_types[c]][n]) = 1

\* C8 (as claimed): every leaf the crawler pages through has a reported
\* match count within the result window.  The query of lines 365-374 has no
\* range bound, so the one leaf of a property type is its whole range:
\* ascending, contiguous and covering by construction, and the count is the
\* part of the claim that the crawl decides.
C8_LeavesWithinWindow ==
  \A p \in Procs :
    \A i \in 1..Len(http[p]) :
      http[p][i].ok => http[p][i].total <= ApiWindow

\* C9 (as claimed): fetch_annonces reports a failure to its caller only
\* after a retry, that is after at least two requests for the same page.
C9_RetryBeforeFailure ==
  [][\A p \in Procs :
       stats'[p].errors = stats[p].errors + 1
       => Cardinality({i \in Failed(p)' :
                         /\ http'[p][i].propertyType = property_types[catIdx[p]]
                         /\ http'[p][i].from = from_index[p]}) >= 2]_vars

\* the first request of p for a property type
FirstRequest(p, cat) ==
  CHOOSE i \in 1..Len(http[p]) :
    /\ http[p][i].propertyType = cat
    /\ \A j \in 1..(i - 1) : http[p][j].propertyType # cat

\* C10: whatever fetch failed, a finished crawl has requested every property
\* type, starting at offset 0, and every ad it was delivered is stored; and
\* no step removes a stored document or changes its key.
C10_FailureIsolation ==
  /\ [](\A p \in Procs :
          pc[p] = "done"
          => /\ \A c \in 1..Len(property_types) :
                  /\ \E i \in 1..Len(http[p]) : http[p][i].propertyType = property_types[c]
                  /\ http[p][FirstRequest(p, property_types[c])].from = 0
             /\ \A i \in 1..Len(http[p]) :
                  \A j \in 1..Len(http[p][i].ads) :
                    http[p][i].ads[j].f["id"] \in StoredIds)
  /\ [][\A k \in 1..Len(collection) :
          /\ k <= Len(collection')
          /\ collection'[k]["id"] = collection[k]["id"]]_vars

\* C10 witness: the crawl is finished, the second page of the first property
\* type failed after its first page was stored, and the ads of the second
\* property type are stored
C10_Witness ==
  \E p \in Procs :
    /\ pc[p] = "done"
    /\ Len(http[p]) >= 3
    /\ http[p][1].propertyType = "flat" /\ http[p][1].ok
    /\ http[p][2].propertyType = "flat" /\ ~http[p][2].ok
    /\ http[p][3].propertyType = "house" /\ http[p][3].ok /\ http[p][3].from = 0
    /\ http[p][3].ads # <<>>
    /\ \A j \in 1..Len(http[p][1].ads) : http[p][1].ads[j].f["id"] \in StoredIds
    /\ \A j \in 1..Len(http[p][3].ads) : http[p][3].ads[j].f["id"] \in StoredIds

\* the exchanges of p about a property type
Requests(p, cat) == {i \in 1..Len(http[p]) : http[p][i].propertyType = cat}

\* C11: whatever the API answers (pages, empty pages, failures, any total), a
\* run sends at most max_pages requests per property type, and once it is in
\* scrape_with_filters it reaches the end of print_stats unless the user
\* interrupts it.
C11_Terminates ==
  /\ [](\A p \in Procs : \A c \in 1..Len(property_types) :
          Cardinality(Requests(p, property_types[c])) <= max_pages)
  /\ \A p \in Procs : (pc[p] = "for") ~> (pc[p] \in {"done", "interrupted"})

\* C11 witness: a finished crawl that met a failure and a page whose total
\* is below the number of ads it brought
C11_Witness ==
  \E p \in Procs :
    /\ pc[p] = "done"
    /\ \E i, j \in 1..Len(http[p]) :
         /\ ~http[p][i].ok
         /\ http[p][j].ok
         /\ http[p][j].total < Len(http[p][j].ads)

\* C12: with an API that keeps delivering the same ads, one payload per key,
\* no step of a run, a re-run included, removes a stored document,
\* changes its key, its payload or created_at (only scraped_at and updated_at
\* change), or inserts a document whose key is already stored.
C12_RerunSafe ==
  [][/\ \A k \in 1..Len(collection) :
          /\ k <= Len(collection')
          /\ DOMAIN collection'[k] = DOMAIN collection[k]
          /\ \A f \in DOMAIN collection[k] \ {"scraped_at", "updated_at"} :
               collection'[k][f] = collection[k][f]
     /\ \A k \in (Len(collection) + 1)..Len(collection') :
          collection'[k]["id"] \notin StoredIds]_vars

\* C12 witness: a re-run has finished; it updated documents of the earlier
\* run and inserted the ones that run had not reached
C12_Witness ==
  \E p \in Procs :
    /\ pc[p] = "done"
    /\ runsLeft[p] <= MaxRuns - 2
    /\ stats[p].updated >= 1
    /\ stats[p].inserted >= 1
    /\ \E k \in 1..Len(collection) : collection[k]["updated_at"] > collection[k]["created_at"]

\* the ads the responses 1..i of p brought for a property type
RECURSIVE ItemsUpTo(_, _, _)
ItemsUpTo(p, cat, i) ==
  IF i = 0 THEN 0
  ELSE ItemsUpTo(p, cat, i - 1)
         + (IF http[p][i].propertyType = cat THEN Len(http[p][i].ads) ELSE 0)

WindowRespected ==
  \A p \in Procs :
    \A i \in 1..Len(http[p]) :
      http[p][i].ok => ItemsUpTo(p, http[p][i].propertyType, i) <= http[p][i].total

\* C13 (as claimed): whatever the API answers, the ads retrieved for a
\* property type never exceed the total of the response that brought them.
C13_WindowRespect == WindowRespected

\* C13 (amended): whatever the API answers, a property type is requested
\* again only while the ads retrieved for it are fewer than the total of the
\* last response; and for an API that reports the true match count as total
\* the ads retrieved never exceed that total, fetch failures included.
C13_WindowRespectConsistent ==
  /\ \A p \in Procs :
       \A i \in 1..(Len(http[p]) - 1) :
         http[p][i + 1].propertyType = http[p][i].propertyType
         => ItemsUpTo(p, http[p][i].propertyType, i) < http[p][i].total
  /\ consistent => WindowRespected

\* C13 witness: a consistent API, two pages of a property type retrieved, as
\* many ads as the total
C13_Witness ==
  \E p \in Procs :
    /\ consistent
    /\ \E i \in 2..Len(http[p]) :
         /\ http[p][i].ok
         /\ http[p][i].page = 2
         /\ ItemsUpTo(p, http[p][i].propertyType, i) = http[p][i].total

\* C14 (as claimed): a request that is not the first one of the crawl is
\* sent after a sleep that followed the request before it.
C14_DelayBetweenFetches ==
  [][\A p \in Procs :
       (Len(http[p]) >= 1 /\ Len(http'[p]) = Len(http[p]) + 1) => slept[p]]_vars

\* C15: a property type gets at most max_pages requests; a request follows
\* another one of the same property type only if that one succeeded, was not
\* empty and left the offset below its total; and paging goes on whenever
\* none of the four conditions holds.
C15_PagingStops ==
  /\ [](\A p \in Procs :
          /\ \A c \in 1..Len(property_types) :
               Cardinality(Requests(p, property_types[c])) <= max_pages
          /\ \A i \in 1..(Len(http[p]) - 1) :
               http[p][i + 1].propertyType = http[p][i].propertyType
               => /\ http[p][i].ok
                  /\ http[p][i].ads # <<>>
                  /\ http[p][i + 1].from < http[p][i].total)
  /\ [][\A p \in Procs :
          /\ (pc[p] = "save" /\ pos[p] > Len(annonces[p]) /\ pc'[p] \notin {"save", "interrupted"})
             => (pc'[p] = "sleep" <=> from_index'[p] < total[p])
          /\ (pc[p] = "sleep" /\ pc'[p] \notin {"sleep", "interrupted"})
             => pc'[p] = "while"
          /\ (pc[p] = "while" /\ pc'[p] \notin {"while", "interrupted"})
             => (Len(http'[p]) = Len(http[p]) + 1 <=> page_num[p] <= max_pages)]_vars

\* C15 witness: a finished crawl in which a property type was paged further
\* and another one stopped on a failure
C15_Witness ==
  \E p \in Procs :
    /\ pc[p] = "done"
    /\ \E i \in 1..(Len(http[p]) - 1) :
         /\ http[p][i + 1].propertyType = http[p][i].propertyType
         /\ http[p][i + 1].ok
    /\ \E i \in 1..Len(http[p]) : ~http[p][i].ok

C17_Accounting ==
  /\ [](\A p \in Procs :
          /\ stats[p].total_scraped = stats[p].inserted + stats[p].updated + stats[p].skipped
          /\ pc[p] \in {"save", "write"}
             => result[p].inserted + result[p].updated + result[p].skipped = pos[p] - 1)
  /\ [][\A p \in Procs :
          (pc[p] \in Running /\ pc'[p] \in Running \cup {"done"})
          => /\ \A f \in DOMAIN stats[p] : stats'[p][f] >= stats[p][f]
             /\ (pc[p] = "save" /\ pos[p] > Len(annonces[p]) /\ pc'[p] # "save")
                => stats'[p].total_scraped = stats[p].total_scraped + Len(annonces[p])
             /\ (pc[p] \in {"save", "write"} /\ pc'[p] \in {"save", "write"})
                => \A f \in DOMAIN result[p] : result'[p][f] >= result[p][f]]_vars

\* the ads of the first category that save_annonces skips whatever is stored
Unstorable ==
  {n \in 1..Len(dataset["flat"]) :
     LET data == dataset["flat"][n]
         doc == prepare_annonce(data, 0)
     IN  PrepareRaises(data) \/ KeyMissing(doc) \/ PriceInvalid(doc) \/ NotRent(doc)}

\* C17 witness: two finished crawls; one inserted, the other one updated,
\* skipped an unstorable ad and skipped a storable one on a DuplicateKeyError
C17_Witness ==
  \E p, q \in Procs :
    /\ pc[p] = "done"
    /\ pc[q] = "done"
    /\ stats[q].inserted >= 1
    /\ stats[p].updated >= 1
    /\ Unstorable # {}
    /\ stats[p].skipped > Cardinality(Unstorable)

Rejections ==
  cstats.prix_invalide + cstats.surface_invalide + cstats.type_invalide
    + cstats.localisation_manquante + cstats.pieces_aberrant + cstats.prix_m2_aberrant

\* C18: when fetch_clean_store has completed, inserted + duplicates + the
\* rejection counters = the number of source documents; while it reads, every
\* document read is in exactly one counter or in the pending batch; and from
\* the reset on the clean collection holds exactly `inserted` documents,
\* each a cleaned source document that passes is_valid_location.
C18_CleanerConservation ==
  /\ cpc \in {"stats", "done"}
     => cstats.inserted + cstats.duplicates + Rejections = Len(source)
  /\ cpc = "loop"
     => cstats.inserted + cstats.duplicates + Rejections + Len(batch) = cursor - 1
  /\ cpc \in {"loop", "stats", "done"}
     => /\ Len(clean) = cstats.inserted
        /\ \A k \in 1..Len(clean) :
             /\ is_valid_location(clean[k])
             /\ \E j \in 1..Len(source) : clean[k] = clean_document(source[j])

\* C18 witness: fetch_clean_store completed on a source with an inserted, a
\* duplicate and a rejected document
C18_Witness ==
  /\ cpc = "done"
  /\ cstats.inserted >= 1
  /\ cstats.duplicates >= 1
  /\ Rejections >= 1

====
